---- MODULE Spec2Model ----
(***************************************************************************)
(* Costmap2D (include/gtplanner/costmap2d.h, src/costmap2d.cpp): a vector  *)
(* of weights, current_weights_, overwritten by updateWeights under the    *)
(* mutex mtx_, optionally fed by the dynamic_reconfigure callback          *)
(* reconfigCB, and read by direct member access                            *)
(* (test/test_dynamic_weights.cpp:7), which takes no lock.                 *)
(*                                                                         *)
(* std::vector's copy assignment is not atomic: it copies the elements one *)
(* by one and then sets the length.  mtx_ makes it atomic only with        *)
(* respect to threads that take mtx_.                                      *)
(***************************************************************************)
EXTENDS Integers, Sequences, FiniteSets, TLC

\* ---- bounds -------------------------------------------------------------
MaxLen == 2
MaxWeight == 2
NumWriters == 1
NumReaders == 2

\* ---- values -------------------------------------------------------------
Weights == 1..MaxWeight
Indices == 1..MaxLen
WeightSets == UNION {[1..m -> Weights] : m \in 0..MaxLen}

\* content of vector storage that no write has filled yet
Junk == 0
\* "no WeightSet": a sequence that is not in WeightSets
NoValue == <<Junk>>

\* gtplanner::CostWeightsConfig: the two fields reconfigCB uses
CostWeightsConfig == [obstacle_weight : Weights, inflation_weight : Weights]
NoConfig == [obstacle_weight |-> Junk, inflation_weight |-> Junk]
\* the vector reconfigCB builds from a configuration
Forward(c) == <<c.obstacle_weight, c.inflation_weight>>

\* ---- threads ------------------------------------------------------------
\* the thread of the dynamic_reconfigure server, which runs reconfigCB
CallbackThread == 0
\* threads that call updateWeights directly
Writers == 1..NumWriters
WriterThreads == {CallbackThread} \cup Writers
\* threads that read current_weights_
Readers == (NumWriters + 1)..(NumWriters + NumReaders)
\* the reader that runs beside several writers
MainReaders == {NumWriters + 1}
Threads == WriterThreads \cup Readers

\* std::mutex mtx_ unlocked
Free == -1

VARIABLES
  has_reconfig,      \* GTPLANNER_HAS_DYNAMIC_RECONFIGURE is defined
  mtx_,              \* Free, or the thread that holds the mutex
  current_weights_,  \* [size, elems]: the vector's length and its storage
  pc,                \* per thread: where it is
  w,                 \* per writer thread: the argument of updateWeights
  k,                 \* per writer thread: elements the assignment has copied
  cfg,               \* the argument of the reconfigCB call in progress
  n,                 \* per reader: the length it read
  buf,               \* per reader: the elements copied so far / the snapshot
  \* history variables: they record the past, no action's guard reads them
  started,           \* an updateWeights call has been issued since construction
  lastAcq,           \* argument of the call that acquired mtx_ last
  lastDone,          \* argument of the call that returned last
  contended,         \* since the writers were last all idle, a call acquired
                     \*   mtx_ while another call was waiting for it
  cbWrites,          \* acquisitions of mtx_ by the latest reconfigCB call
  expect,            \* per reader: lastDone at its start, while mtx_ has been
                     \*   free all through its read; else NoValue
  probe,             \* one WeightSet under observation (A), or NoValue
  probeWritten,      \* probe has been passed to updateWeights
  probeDone,         \* a call updateWeights(probe) has returned
  sawProbe,          \* per writer thread: probeDone at its call
  lastSaw,           \* sawProbe of the call that returned last
  seqRead,           \* per reader: lastSaw at its start, while mtx_ has been
                     \*   free all through its read
  forbidden          \* per reader: a call had returned at its start, and
                     \*   probe is neither lastDone at its start nor the
                     \*   argument of a call that has held mtx_ since

progVars == <<has_reconfig, mtx_, current_weights_, pc, w, k, cfg, n, buf>>
histVars == <<started, lastAcq, lastDone, contended, cbWrites, expect, probe,
              probeWritten, probeDone, sawProbe, lastSaw, seqRead, forbidden>>
vars == <<progVars, histVars>>

\* ---- the vector ---------------------------------------------------------
\* a std::vector<double> holding the WeightSet v
Vector(v) ==
  [size |-> Len(v), elems |-> [j \in Indices |-> IF j <= Len(v) THEN v[j] ELSE Junk]]

\* the WeightSet a vector holds
Value(vec) == [j \in 1..vec.size |-> vec.elems[j]]

\* a constructor that installs the weights {1.0, 1.0}
OnesWeights == <<1, 1>>

\* what Costmap2D() leaves in current_weights_: a default-constructed vector
DefaultWeights == << >>

TypeOK ==
  /\ has_reconfig \in BOOLEAN
  /\ mtx_ \in {Free} \cup WriterThreads
  /\ current_weights_ \in [size : 0..MaxLen, elems : [Indices -> Weights \cup {Junk}]]
  /\ pc \in [Threads -> {"idle", "lock", "assign", "unlock", "copy", "done"}]
  /\ w \in [WriterThreads -> WeightSets]
  /\ k \in [WriterThreads -> 0..MaxLen]
  /\ cfg \in CostWeightsConfig \cup {NoConfig}
  /\ n \in [Readers -> 0..MaxLen]
  /\ buf \in [Readers -> UNION {[1..m -> Weights \cup {Junk}] : m \in 0..MaxLen}]
  /\ started \in BOOLEAN
  /\ lastAcq \in WeightSets \cup {NoValue}
  /\ lastDone \in WeightSets \cup {NoValue}
  /\ contended \in BOOLEAN
  /\ cbWrites \in 0..1
  /\ expect \in [Readers -> WeightSets \cup {NoValue}]
  /\ probe \in WeightSets \cup {NoValue}
  /\ probeWritten \in BOOLEAN
  /\ probeDone \in BOOLEAN
  /\ sawProbe \in [WriterThreads -> BOOLEAN]
  /\ lastSaw \in BOOLEAN
  /\ seqRead \in [Readers -> BOOLEAN]
  /\ forbidden \in [Readers -> BOOLEAN]

\* ---- construction ---------------------------------------------------------
\* Costmap2D::Costmap2D(): the members are default-constructed.  In a build
\* with dynamic_reconfigure the constructor registers reconfigCB, and
\* dynamic_reconfigure::Server::setCallback runs the callback once, at once,
\* with the server's initial configuration, whose values (the defaults of
\* CostWeightsConfig) are not in the source: any c.  That call has returned
\* when the constructor returns.
Construct ==
  /\ has_reconfig \in BOOLEAN
  /\ mtx_ = Free
  /\ \E c \in CostWeightsConfig :
       current_weights_ = Vector(IF has_reconfig THEN Forward(c) ELSE DefaultWeights)
  /\ pc = [t \in Threads |-> "idle"]
  /\ w = [t \in WriterThreads |-> << >>]
  /\ k = [t \in WriterThreads |-> 0]
  /\ cfg = NoConfig
  /\ n = [r \in Readers |-> 0]
  /\ buf = [r \in Readers |-> << >>]

\* history after construction: the only call so far is the constructor's
NoHistory ==
  /\ started = FALSE
  /\ lastAcq = (IF has_reconfig THEN Value(current_weights_) ELSE NoValue)
  /\ lastDone = (IF has_reconfig THEN Value(current_weights_) ELSE NoValue)
  /\ contended = FALSE
  /\ cbWrites = (IF has_reconfig THEN 1 ELSE 0)
  /\ expect = [r \in Readers |-> NoValue]
  /\ probeWritten = FALSE
  /\ probeDone = FALSE
  /\ sawProbe = [t \in WriterThreads |-> FALSE]
  /\ lastSaw = FALSE
  /\ seqRead = [r \in Readers |-> FALSE]
  /\ forbidden = [r \in Readers |-> FALSE]

Init == Construct /\ NoHistory /\ probe = NoValue

\* a build without dynamic_reconfigure, with some WeightSet A put under
\* observation
InitProbe == Construct /\ ~has_reconfig /\ NoHistory /\ probe \in WeightSets

\* ---- updateWeights --------------------------------------------------------
\* the call itself: the argument is bound, the thread reaches lock_guard
Enter(t, v) ==
  /\ pc[t] = "idle"
  /\ pc' = [pc EXCEPT ![t] = "lock"]
  /\ w' = [w EXCEPT ![t] = v]
  /\ started' = TRUE
  /\ contended' = (contended /\ \E u \in WriterThreads : pc[u] # "idle")
  /\ probeWritten' = (probeWritten \/ v = probe)
  /\ sawProbe' = [sawProbe EXCEPT ![t] = probeDone]
  /\ UNCHANGED <<has_reconfig, mtx_, current_weights_, k, n, buf>>
  /\ UNCHANGED <<lastAcq, lastDone, expect, probe, probeDone, lastSaw, seqRead, forbidden>>

\* a thread calls updateWeights(v) directly
updateWeights(t, v) ==
  /\ t \in Writers
  /\ Enter(t, v)
  /\ UNCHANGED <<cfg, cbWrites>>

\* a callback that passes the two fields in the other order
reconfigCBSwapped(c) ==
  /\ has_reconfig
  /\ Enter(CallbackThread, <<c.inflation_weight, c.obstacle_weight>>)
  /\ cfg' = c
  /\ cbWrites' = 0

\* a callback that stores the pair itself, without updateWeights and so
\* without mtx_
reconfigCBUnlocked(c) ==
  /\ has_reconfig
  /\ pc[CallbackThread] = "idle"
  /\ current_weights_' = Vector(Forward(c))
  /\ started' = TRUE
  /\ lastAcq' = Forward(c)
  /\ lastDone' = Forward(c)
  /\ UNCHANGED <<has_reconfig, mtx_, pc, w, k, cfg, n, buf>>
  /\ UNCHANGED <<contended, cbWrites, expect, probe, probeWritten, probeDone,
                 sawProbe, lastSaw, seqRead, forbidden>>

\* a callback that takes mtx_ itself before it calls updateWeights
reconfigCBLocking(c) ==
  /\ has_reconfig
  /\ mtx_ = Free
  /\ mtx_' = CallbackThread
  /\ pc[CallbackThread] = "idle"
  /\ pc' = [pc EXCEPT ![CallbackThread] = "lock"]
  /\ w' = [w EXCEPT ![CallbackThread] = Forward(c)]
  /\ cfg' = c
  /\ cbWrites' = 0
  /\ started' = TRUE
  /\ UNCHANGED <<has_reconfig, current_weights_, k, n, buf>>
  /\ UNCHANGED <<lastAcq, lastDone, contended, expect, probe, probeWritten,
                 probeDone, sawProbe, lastSaw, seqRead, forbidden>>

\* the dynamic_reconfigure server delivers c: reconfigCB calls
\* updateWeights({cfg.obstacle_weight, cfg.inflation_weight})
reconfigCB(c) ==
  /\ has_reconfig
  /\ Enter(CallbackThread, Forward(c))
  /\ cfg' = c
  /\ cbWrites' = 0

\* an updateWeights that does not wait for mtx_
LockNoWait(t) ==
  /\ pc[t] = "lock"
  /\ mtx_' = t
  /\ pc' = [pc EXCEPT ![t] = "assign"]
  /\ lastAcq' = w[t]
  /\ contended' = (contended \/ \E u \in WriterThreads \ {t} : pc[u] = "lock")
  /\ cbWrites' = IF t = CallbackThread THEN 1 ELSE cbWrites
  /\ expect' = [r \in Readers |-> IF pc[r] = "copy" THEN NoValue ELSE expect[r]]
  /\ seqRead' = [r \in Readers |-> seqRead[r] /\ pc[r] # "copy"]
  /\ forbidden' = [r \in Readers |-> forbidden[r] /\ ~(pc[r] = "copy" /\ w[t] = probe)]
  /\ UNCHANGED <<has_reconfig, current_weights_, w, k, cfg, n, buf>>
  /\ UNCHANGED <<started, lastDone, probe, probeWritten, probeDone, sawProbe, lastSaw>>

\* std::lock_guard<std::mutex> lock(mtx_): blocks until mtx_ is free
Lock(t) ==
  /\ pc[t] = "lock"
  /\ mtx_ = Free
  /\ mtx_' = t
  /\ pc' = [pc EXCEPT ![t] = "assign"]
  /\ lastAcq' = w[t]
  /\ contended' = (contended \/ \E u \in WriterThreads \ {t} : pc[u] = "lock")
  /\ cbWrites' = IF t = CallbackThread THEN 1 ELSE cbWrites
  /\ expect' = [r \in Readers |-> IF pc[r] = "copy" THEN NoValue ELSE expect[r]]
  /\ seqRead' = [r \in Readers |-> seqRead[r] /\ pc[r] # "copy"]
  /\ forbidden' = [r \in Readers |-> forbidden[r] /\ ~(pc[r] = "copy" /\ w[t] = probe)]
  /\ UNCHANGED <<has_reconfig, current_weights_, w, k, cfg, n, buf>>
  /\ UNCHANGED <<started, lastDone, probe, probeWritten, probeDone, sawProbe, lastSaw>>

\* an assignment that keeps an element the vector already holds
AssignElemKeepOld(t) ==
  /\ pc[t] = "assign"
  /\ k[t] < Len(w[t])
  /\ current_weights_' =
       IF current_weights_.elems[k[t] + 1] = Junk
       THEN [current_weights_ EXCEPT !.elems[k[t] + 1] = w[t][k[t] + 1]]
       ELSE current_weights_
  /\ k' = [k EXCEPT ![t] = k[t] + 1]
  /\ UNCHANGED <<has_reconfig, mtx_, pc, w, cfg, n, buf, histVars>>

\* readers that hold a view of the vector's storage instead of a copy: the
\* assignment shows through in the snapshots already handed out
AssignElemAliased(t) ==
  /\ pc[t] = "assign"
  /\ k[t] < Len(w[t])
  /\ current_weights_' = [current_weights_ EXCEPT !.elems[k[t] + 1] = w[t][k[t] + 1]]
  /\ k' = [k EXCEPT ![t] = k[t] + 1]
  /\ buf' = [r \in Readers |->
               IF pc[r] = "done" /\ Len(buf[r]) > k[t]
               THEN [buf[r] EXCEPT ![k[t] + 1] = w[t][k[t] + 1]]
               ELSE buf[r]]
  /\ UNCHANGED <<has_reconfig, mtx_, pc, w, cfg, n, histVars>>

\* current_weights_ = w, first part: the next element is copied
AssignElem(t) ==
  /\ pc[t] = "assign"
  /\ k[t] < Len(w[t])
  /\ current_weights_' = [current_weights_ EXCEPT !.elems[k[t] + 1] = w[t][k[t] + 1]]
  /\ k' = [k EXCEPT ![t] = k[t] + 1]
  /\ UNCHANGED <<has_reconfig, mtx_, pc, w, cfg, n, buf, histVars>>

\* an assignment that never shortens the vector
AssignSizeGrowOnly(t) ==
  /\ pc[t] = "assign"
  /\ k[t] = Len(w[t])
  /\ current_weights_' =
       [current_weights_ EXCEPT !.size = IF @ > Len(w[t]) THEN @ ELSE Len(w[t])]
  /\ pc' = [pc EXCEPT ![t] = "unlock"]
  /\ k' = [k EXCEPT ![t] = 0]
  /\ UNCHANGED <<has_reconfig, mtx_, w, cfg, n, buf, histVars>>

\* an assignment that always leaves the two weights of a configuration: a
\* shorter argument is padded with what the storage holds, a longer one cut
AssignSizePadded(t) ==
  /\ pc[t] = "assign"
  /\ k[t] = Len(w[t])
  /\ current_weights_' = [current_weights_ EXCEPT !.size = 2]
  /\ pc' = [pc EXCEPT ![t] = "unlock"]
  /\ k' = [k EXCEPT ![t] = 0]
  /\ UNCHANGED <<has_reconfig, mtx_, w, cfg, n, buf, histVars>>

\* current_weights_ = w, last part: the length is set
AssignSize(t) ==
  /\ pc[t] = "assign"
  /\ k[t] = Len(w[t])
  /\ current_weights_' = [current_weights_ EXCEPT !.size = Len(w[t])]
  /\ pc' = [pc EXCEPT ![t] = "unlock"]
  /\ k' = [k EXCEPT ![t] = 0]
  /\ UNCHANGED <<has_reconfig, mtx_, w, cfg, n, buf, histVars>>

\* a return that leaves mtx_ locked
UnlockKeep(t) ==
  /\ pc[t] = "unlock"
  /\ pc' = [pc EXCEPT ![t] = "idle"]
  /\ w' = [w EXCEPT ![t] = << >>]
  /\ cfg' = IF t = CallbackThread THEN NoConfig ELSE cfg
  /\ lastDone' = w[t]
  /\ probeDone' = (probeDone \/ w[t] = probe)
  /\ lastSaw' = sawProbe[t]
  /\ sawProbe' = [sawProbe EXCEPT ![t] = FALSE]
  /\ UNCHANGED <<has_reconfig, mtx_, current_weights_, k, n, buf>>
  /\ UNCHANGED <<started, lastAcq, contended, cbWrites, expect, probe, probeWritten,
                 seqRead, forbidden>>

\* ~lock_guard and return (from reconfigCB too, for the callback thread)
Unlock(t) ==
  /\ pc[t] = "unlock"
  /\ mtx_' = Free
  /\ pc' = [pc EXCEPT ![t] = "idle"]
  /\ w' = [w EXCEPT ![t] = << >>]
  /\ cfg' = IF t = CallbackThread THEN NoConfig ELSE cfg
  /\ lastDone' = w[t]
  /\ probeDone' = (probeDone \/ w[t] = probe)
  /\ lastSaw' = sawProbe[t]
  /\ sawProbe' = [sawProbe EXCEPT ![t] = FALSE]
  /\ UNCHANGED <<has_reconfig, current_weights_, k, n, buf>>
  /\ UNCHANGED <<started, lastAcq, contended, cbWrites, expect, probe, probeWritten,
                 seqRead, forbidden>>

\* ---- reading current_weights_ (no lock) ----------------------------------
\* The class has no accessor: a reader takes the member itself, as the test
\* does, without mtx_.

\* a read that takes mtx_ for the copy
ReadSizeLocked(r) ==
  /\ pc[r] = "idle"
  /\ mtx_ = Free
  /\ mtx_' = r
  /\ n' = [n EXCEPT ![r] = current_weights_.size]
  /\ buf' = [buf EXCEPT ![r] = << >>]
  /\ pc' = [pc EXCEPT ![r] = IF current_weights_.size = 0 THEN "done" ELSE "copy"]
  /\ expect' = [expect EXCEPT ![r] = lastDone]
  /\ UNCHANGED <<has_reconfig, current_weights_, w, k, cfg>>
  /\ UNCHANGED <<started, lastAcq, lastDone, contended, cbWrites, probe, probeWritten,
                 probeDone, sawProbe, lastSaw, seqRead, forbidden>>

\* the reader takes the vector's length
ReadSize(r) ==
  /\ pc[r] = "idle"
  /\ n' = [n EXCEPT ![r] = current_weights_.size]
  /\ buf' = [buf EXCEPT ![r] = << >>]
  /\ pc' = [pc EXCEPT ![r] = IF current_weights_.size = 0 THEN "done" ELSE "copy"]
  /\ expect' = [expect EXCEPT ![r] = IF mtx_ = Free THEN lastDone ELSE NoValue]
  /\ seqRead' = [seqRead EXCEPT ![r] = (mtx_ = Free /\ lastSaw)]
  /\ forbidden' = [forbidden EXCEPT ![r] =
                     /\ probe # NoValue
                     /\ lastDone # NoValue
                     /\ probe # lastDone
                     /\ ~(mtx_ # Free /\ lastAcq = probe)]
  /\ UNCHANGED <<has_reconfig, mtx_, current_weights_, w, k, cfg>>
  /\ UNCHANGED <<started, lastAcq, lastDone, contended, cbWrites, probe, probeWritten,
                 probeDone, sawProbe, lastSaw>>

\* the reader takes current_weights_[j], the next element
ReadElem(r) ==
  /\ pc[r] = "copy"
  /\ buf' = [buf EXCEPT ![r] = Append(buf[r], current_weights_.elems[Len(buf[r]) + 1])]
  /\ pc' = [pc EXCEPT ![r] = IF Len(buf[r]) + 1 = n[r] THEN "done" ELSE "copy"]
  /\ UNCHANGED <<has_reconfig, mtx_, current_weights_, w, k, cfg, n, histVars>>

\* the reader is finished with its snapshot
ReadDrop(r) ==
  /\ pc[r] = "done"
  /\ pc' = [pc EXCEPT ![r] = "idle"]
  /\ n' = [n EXCEPT ![r] = 0]
  /\ buf' = [buf EXCEPT ![r] = << >>]
  /\ expect' = [expect EXCEPT ![r] = NoValue]
  /\ seqRead' = [seqRead EXCEPT ![r] = FALSE]
  /\ forbidden' = [forbidden EXCEPT ![r] = FALSE]
  /\ UNCHANGED <<has_reconfig, mtx_, current_weights_, w, k, cfg>>
  /\ UNCHANGED <<started, lastAcq, lastDone, contended, cbWrites, probe, probeWritten,
                 probeDone, sawProbe, lastSaw>>

\* ---- specifications -------------------------------------------------------
\* the callback thread and the direct callers write, one thread reads
Next ==
  \/ \E t \in Writers, v \in WeightSets : updateWeights(t, v)
  \/ \E c \in CostWeightsConfig : reconfigCB(c)
  \/ \E t \in WriterThreads : Lock(t)
  \/ \E t \in WriterThreads : AssignElem(t)
  \/ \E t \in WriterThreads : AssignSize(t)
  \/ \E t \in WriterThreads : Unlock(t)
  \/ \E r \in MainReaders : ReadSize(r)
  \/ \E r \in MainReaders : ReadElem(r)
  \/ \E r \in MainReaders : ReadDrop(r)

Spec == Init /\ [][Next]_vars

\* no callback thread: the direct callers write, one thread reads
NextDirect ==
  \/ \E t \in Writers, v \in WeightSets : updateWeights(t, v)
  \/ \E t \in Writers : Lock(t)
  \/ \E t \in Writers : AssignElem(t)
  \/ \E t \in Writers : AssignSize(t)
  \/ \E t \in Writers : Unlock(t)
  \/ \E r \in MainReaders : ReadSize(r)
  \/ \E r \in MainReaders : ReadElem(r)
  \/ \E r \in MainReaders : ReadDrop(r)

SpecProbe == InitProbe /\ [][NextDirect]_vars

\* either build, and the dynamic_reconfigure server delivers nothing after
\* construction: the direct callers write, one thread reads
SpecNoCallback == Init /\ [][NextDirect]_vars

\* the callback thread alone writes, all the readers read
NextReaders ==
  \/ \E c \in CostWeightsConfig : reconfigCB(c)
  \/ Lock(CallbackThread)
  \/ AssignElem(CallbackThread)
  \/ AssignSize(CallbackThread)
  \/ Unlock(CallbackThread)
  \/ \E r \in Readers : ReadSize(r)
  \/ \E r \in Readers : ReadElem(r)
  \/ \E r \in Readers : ReadDrop(r)

SpecReaders == Init /\ [][NextReaders]_vars

\* a thread inside updateWeights or inside a read keeps running; std::mutex
\* promises no order among the threads waiting for it, so Lock is only
\* weakly fair; nothing obliges a thread to issue a call
Fairness ==
  /\ \A t \in WriterThreads :
       /\ WF_vars(Lock(t))
       /\ WF_vars(AssignElem(t))
       /\ WF_vars(AssignSize(t))
       /\ WF_vars(Unlock(t))
  /\ \A r \in MainReaders : WF_vars(ReadElem(r))

FairSpec == Init /\ [][Next]_vars /\ Fairness

\* ---- the claims ------------------------------------------------------------
ReadDone(r) == pc[r] = "done"
WritersIdle == \A t \in WriterThreads : pc[t] = "idle"

\* C1 (atomicity): whatever a read returns was passed whole to some
\* updateWeights call, or is the value construction left.  Stated for every
\* WeightSet A = probe: a read returns A only if A was written or is the
\* default.
C1_ReadsAreWhole ==
  \A r \in Readers :
    (ReadDone(r) /\ buf[r] = probe) => (probeWritten \/ probe = DefaultWeights)

\* C2 (last-write-visibility): write(A) returned before write(B) was called,
\* B is the last write, and mtx_ was free all through a read that started
\* after B returned: the read returns B, and not A when A differs from B.
\* A is probe, B is expect[r].
C2_LastWriteVisible ==
  \A r \in Readers :
    (ReadDone(r) /\ seqRead[r]) =>
      /\ buf[r] = expect[r]
      /\ (probe # expect[r] => buf[r] # probe)

C2_Witness ==
  \E r \in Readers :
    /\ ReadDone(r) /\ seqRead[r]
    /\ probe # expect[r] /\ Len(probe) > Len(expect[r])
    /\ buf[r] = expect[r] /\ Len(buf[r]) > 0

\* C3 (write-then-read): a read that starts after updateWeights(v) has
\* returned, with mtx_ free all through the read (no other write in between),
\* yields v: the same length and the same elements.
C3_WriteThenRead ==
  \A r \in Readers :
    (ReadDone(r) /\ expect[r] # NoValue) =>
      /\ Len(buf[r]) = Len(expect[r])
      /\ \A j \in 1..Len(buf[r]) : buf[r][j] = expect[r][j]

\* write({2.0, 1.0}), then the read gives {2.0, 1.0}: element 0 is 2.0
C3_Witness ==
  \E r \in Readers :
    /\ ReadDone(r) /\ started
    /\ expect[r] = <<2, 1>> /\ buf[r] = <<2, 1>> /\ buf[r][1] = 2

C5_WritersSerialized ==
  /\ Cardinality({t \in WriterThreads : pc[t] \in {"assign", "unlock"}}) <= 1
  /\ (WritersIdle /\ lastAcq # NoValue) => Value(current_weights_) = lastAcq

\* the callback thread and a direct caller were inside updateWeights together
C5_Witness ==
  /\ WritersIdle /\ contended /\ has_reconfig
  /\ Len(lastAcq) = 1
  /\ Value(current_weights_) = lastAcq

\* C6 (monotonic visibility): a read that starts after a call has returned
\* returns the argument of the last call that had returned by then, or of a
\* call that held mtx_ later.  Stated for every WeightSet A = probe that is
\* neither: the read does not return A.
C6_MonotonicReads ==
  \A r \in Readers : (ReadDone(r) /\ buf[r] = probe) => ~forbidden[r]

\* C7 as claimed (no write starvation): under fair scheduling every call of
\* updateWeights that has started returns, whatever the other writers do.
C7_EveryWriteCompletes ==
  \A t \in WriterThreads : (pc[t] = "lock") ~> (pc[t] = "idle")

\* C7 as amended: under fair scheduling a call of updateWeights that has
\* started returns, whatever the readers do, if from some time on no other
\* thread takes mtx_; and mtx_ is free again and again: nobody holds it for
\* ever.
C7_WriteCompletesAlone ==
  /\ \A t \in WriterThreads :
       (<>[](mtx_ \in {Free, t})) => ((pc[t] = "lock") ~> (pc[t] = "idle"))
  /\ []<>(mtx_ = Free)

\* a call waits for mtx_, which another call holds, while a read is going on
C7_Witness ==
  \E t \in WriterThreads, r \in Readers :
    pc[t] = "lock" /\ mtx_ \in WriterThreads \ {t} /\ pc[r] = "copy"

\* C8 (a read blocks nobody): while a read is in progress, every writer's
\* next step is enabled unless another writer holds mtx_, every other
\* reader's next step is enabled, and no reader holds mtx_.
C8_ReadersBlockNobody ==
  \A r \in Readers :
    pc[r] = "copy" =>
      /\ mtx_ \notin Readers
      /\ \A t \in WriterThreads :
           /\ pc[t] = "lock" => (ENABLED Lock(t) \/ mtx_ \in WriterThreads \ {t})
           /\ pc[t] = "assign" => ENABLED (AssignElem(t) \/ AssignSize(t))
           /\ pc[t] = "unlock" => ENABLED Unlock(t)
      /\ \A q \in Readers \ {r} :
           /\ pc[q] = "idle" => ENABLED ReadSize(q)
           /\ pc[q] = "copy" => ENABLED ReadElem(q)
           /\ pc[q] = "done" => ENABLED ReadDrop(q)

\* two reads in progress while the callback's write is copying
C8_Witness ==
  /\ \A r \in Readers : pc[r] = "copy" /\ Len(buf[r]) = 1
  /\ pc[CallbackThread] = "assign" /\ k[CallbackThread] = 1

C10_BridgeForwards ==
  /\ [](pc[CallbackThread] # "idle" =>
          /\ cfg \in CostWeightsConfig
          /\ w[CallbackThread] = <<cfg.obstacle_weight, cfg.inflation_weight>>)
  /\ [][(pc[CallbackThread] = "unlock" /\ pc'[CallbackThread] = "idle") =>
          /\ cbWrites = 1
          /\ Value(current_weights_') = <<cfg.obstacle_weight, cfg.inflation_weight>>
          /\ lastDone' = <<cfg.obstacle_weight, cfg.inflation_weight>>]_vars
  /\ [][(pc'[CallbackThread] # pc[CallbackThread] \/ k'[CallbackThread] # k[CallbackThread]) =>
          /\ UNCHANGED <<has_reconfig, n, buf>>
          /\ \A t \in Threads \ {CallbackThread} : pc'[t] = pc[t]
          /\ \A t \in Writers : w'[t] = w[t] /\ k'[t] = k[t]]_vars

\* the callback is about to return, with another call waiting for mtx_
C10_Witness ==
  /\ pc[CallbackThread] = "unlock" /\ started
  /\ cfg = [obstacle_weight |-> 2, inflation_weight |-> 1]
  /\ Value(current_weights_) = <<2, 1>>
  /\ \E t \in Writers : pc[t] = "lock"

\* C11 (with or without the bridge): with no reconfigCB call delivered, the
\* vector holds the same value in a build with dynamic_reconfigure as in a
\* build without it, which is: what Costmap2D() leaves in a build without it
\* (the initial value) while no updateWeights call has been issued, and the
\* argument of the call that acquired mtx_ last once the calls have returned.
C11_SameWithOrWithoutBridge ==
  WritersIdle =>
    Value(current_weights_) = (IF started THEN lastAcq ELSE DefaultWeights)

\* C12 (construct, then swap): the argument of a call is complete before the
\* call acquires mtx_ and stays as it is; and the thread that holds mtx_
\* changes current_weights_ in one step, from the old value to its argument,
\* whole: no step leaves the vector partly copied.
C12_ConstructThenSwap ==
  [][/\ \A t \in WriterThreads :
          (pc[t] = "lock" /\ pc'[t] = "assign") => (w[t] \in WeightSets /\ w'[t] = w[t])
     /\ current_weights_' # current_weights_ =>
          /\ mtx_ \in WriterThreads
          /\ Value(current_weights_') = w[mtx_]]_vars

\* C13 (lock discipline): at most one thread is inside the critical section
\* of updateWeights, and it is the thread that holds mtx_; and every step
\* that changes current_weights_ is a step of the thread that holds mtx_,
\* inside its assignment, and keeps mtx_ held: neither a direct call nor
\* reconfigCB touches the vector without mtx_.
C13_LockDiscipline ==
  /\ [](/\ Cardinality({t \in WriterThreads : pc[t] \in {"assign", "unlock"}}) <= 1
        /\ \A t \in WriterThreads : pc[t] \in {"assign", "unlock"} <=> mtx_ = t)
  /\ [][current_weights_' # current_weights_ =>
          /\ mtx_ \in WriterThreads
          /\ mtx_' = mtx_
          /\ pc[mtx_] = "assign"
          /\ k'[mtx_] # k[mtx_] \/ pc'[mtx_] # pc[mtx_]
          /\ \A t \in WriterThreads \ {mtx_} : pc'[t] = pc[t] /\ k'[t] = k[t]]_vars

\* the callback has changed the vector under mtx_ while a direct call waits
C13_Witness ==
  /\ mtx_ = CallbackThread /\ pc[CallbackThread] = "assign"
  /\ k[CallbackThread] = MaxLen
  /\ \A j \in Indices : current_weights_.elems[j] = w[CallbackThread][j]
  /\ Value(current_weights_) # w[CallbackThread]
  /\ \E t \in Writers : pc[t] = "lock"

\* some step of a call in progress can be taken
WriterStep ==
  \E t \in WriterThreads : Lock(t) \/ AssignElem(t) \/ AssignSize(t) \/ Unlock(t)

\* C14 (lock release, no deadlock): a call takes mtx_ once, from the state
\* in which it waits for it and never while its thread already holds it; it
\* holds mtx_ from then until it returns, and the return frees mtx_; so
\* mtx_ is free whenever no call is in progress, and whenever a call is in
\* progress some call can take a step.
C14_LockReleased ==
  /\ [](/\ \A t \in WriterThreads : pc[t] \in {"idle", "lock"} => mtx_ # t
        /\ WritersIdle => mtx_ = Free
        /\ ~WritersIdle => ENABLED WriterStep)
  /\ [][\A t \in WriterThreads :
          /\ (mtx_' = t /\ mtx_ # t) =>
               (mtx_ = Free /\ pc[t] = "lock" /\ pc'[t] = "assign")
          /\ (pc'[t] = "lock" /\ pc[t] # "lock") => pc[t] = "idle"
          /\ (pc[t] = "lock" /\ pc'[t] # "lock") => mtx_' = t
          /\ (mtx_ = t /\ mtx_' # t) => (mtx_' = Free /\ pc'[t] = "idle")
          /\ (pc[t] # "idle" /\ pc'[t] = "idle") => (mtx_ = t /\ mtx_' = Free)]_vars

\* the callback waits for mtx_ while a direct call is about to release it
C14_Witness ==
  /\ pc[CallbackThread] = "lock" /\ cbWrites = 0
  /\ \E t \in Writers : mtx_ = t /\ pc[t] = "unlock"
  /\ ~ENABLED Lock(CallbackThread)

\* C15 (whole-value overwrite, no validation): when the calls have returned,
\* the vector is the argument of the last one, of whatever length: as long,
\* element for element the same, nothing rejected, cut, padded or kept.  So,
\* with A = probe and one call after the other: after updateWeights(A) and
\* then updateWeights(B) the value is B, as after updateWeights(B) alone,
\* and is not A unless B is A; after updateWeights(A) twice it is A, as
\* after once.
C15_WholeValueOverwrite ==
  (WritersIdle /\ lastDone # NoValue) =>
    /\ current_weights_.size = Len(lastDone)
    /\ \A j \in 1..Len(lastDone) : current_weights_.elems[j] = lastDone[j]
    /\ Value(current_weights_) = Value(Vector(lastDone))
    /\ (lastSaw /\ lastDone # probe) => Value(current_weights_) # probe
    /\ (lastSaw /\ lastDone = probe) => Value(current_weights_) = probe

\* updateWeights(A) with two elements, then updateWeights(B) with one
C15_Witness ==
  /\ WritersIdle /\ lastSaw
  /\ Len(probe) = 2 /\ Len(lastDone) = 1 /\ lastDone[1] # probe[1]
  /\ Value(current_weights_) = lastDone

====
